---- MODULE Spec2Model ----
(***************************************************************************)
(* Connection / discovery / delivery core of src/main.js.                  *)
(*                                                                         *)
(* One step of the model is one turn of the Node event loop: an event      *)
(* handler (or timer / completion callback) together with every promise    *)
(* continuation (microtask) it unblocks, because Node runs microtasks to   *)
(* completion before it dispatches the next event.                         *)
(*                                                                         *)
(* Promises are <<"pending">>, <<"resolved", value>>, <<"rejected", msg>>. *)
(* Strings built by template literals are sequences of their pieces, so    *)
(* that `${port}` and `${error.message}` stay visible in a report.         *)
(***************************************************************************)
EXTENDS Integers, Sequences, FiniteSets, TLC

\* ------------------------------------------------------------------ bounds
\* number of 'connect-and-send' invocations the host issues
MaxSends == 1
\* number of 'check-port-status' invocations the host issues
MaxProbes == 1

SendIds == 1..MaxSends
ProbeIds == 1..MaxProbes

\* ------------------------------------------------------------- constants
PORTS == <<"8392", "8393", "8394", "8395", "8396", "8397">>

\* ports the host passes to a targeted send or a status check: a candidate
\* port and a port number outside the TCP range
HostPorts == {"8392", "70000"}

\* payloads the host passes: absent/empty, the "NULL" marker, a script
HostCodes == {"", "NULL", "print(1)"}

\* ---------------------------------------------------------------- promises
Pending == <<"pending">>
Resolved(v) == <<"resolved", v>>
Rejected(m) == <<"rejected", m>>

\* a promise is settled once: resolve()/reject() on a settled promise is a no-op
Settle(p, outcome) == IF p = Pending THEN outcome ELSE p

\* ------------------------------------------------------------------ net
\* net's toNumber(): the port string as a number
ToNumber(p) ==
    CASE p = "8392" -> 8392
      [] p = "8393" -> 8393
      [] p = "8394" -> 8394
      [] p = "8395" -> 8395
      [] p = "8396" -> 8396
      [] p = "8397" -> 8397
      [] p = "70000" -> 70000

\* client.connect(port, ...) throws synchronously (ERR_SOCKET_BAD_PORT) unless
\* the port is a number in 0..65535
ValidPort(p) == ToNumber(p) >= 0 /\ ToNumber(p) < 65536

BadPortMessage(p) == <<"Port should be >= 0 and < 65536. Received ", p>>

\* a socket that can still emit 'connect' / 'error' / 'timeout'
Alive == {"connecting", "connected", "ended"}

\* err.message of the 'error' event the socket emits in a given state
SocketError(state) ==
    IF state = "connecting" THEN <<"connect ECONNREFUSED 127.0.0.1">>
    ELSE <<"read ECONNRESET">>

\* ----------------------------------------------------------- the reports
ExecutedReport(port) == <<"Successfully executed script on port: ", port>>

NoScriptReport(port) ==
    <<"Successfully connected to Opiumware on port: ", port, " (no script sent)">>

FailedReport(port, message) ==
    <<"Failed to connect or send on port ", port, ": ">> \o message

RaceTimeoutMessage(port) == <<"Connection to port ", port, " timed out">>

SocketTimeoutMessage(port) == <<"Connection attempt to port ", port, " timed out.">>

CompressionMessage == <<"Compression failed: ", "Z_MEM_ERROR">>

AutoAttachFailure == "Failed to connect on all ports"

\* ------------------------------------------------- _connectAndSendInternal
\* The state of one invocation:
\*   pc       where the async executor is suspended
\*   client   the socket: "new", "connecting", "connected", "ended", "destroyed"
\*   calls    the socket methods the session has called, in order
\*   promise  the promise of the connect attempt (res / rej)
\*   id       the timer of promiseTimeout: "none", "pending", "fired", "cleared"
\*   race     the promise promiseTimeout returns
\*   result   the promise the caller holds
\*   encoded  number of compressData invocations
\*   written  the byte streams handed to a socket that could take them
\*   flushed  TRUE once the write callback ran without an error
\*   console  the lines the session wrote with console.log / console.error
NoSession ==
    [pc |-> "idle", code |-> "", port |-> "", client |-> "new", calls |-> <<>>,
     promise |-> Pending, id |-> "none", race |-> Pending, result |-> Pending,
     encoded |-> 0, written |-> <<>>, flushed |-> FALSE, console |-> <<>>]

\* console.log / console.error
log(r, line) == [r EXCEPT !.console = Append(@, line)]

ConnectedLog(port) == <<"Successfully connected to Opiumware on port: ", port>>

ScriptSentLog(port, length) == <<"Script sent to port ", port, " (", length, " bytes)">>

FailedLog(port, message) ==
    <<"Failed to connect or send on port ", port, ":">> \o message

destroy(r) == [r EXCEPT !.client = "destroyed", !.calls = Append(@, "destroy")]

end(r) ==
    [r EXCEPT !.client = IF @ = "destroyed" THEN @ ELSE "ended",
              !.calls = Append(@, "end")]

\* resolve(...) of the promise the caller holds
resolve(r, report) == [r EXCEPT !.result = Settle(@, Resolved(report)), !.pc = "done"]

\* variants of the catch block: one rejects instead of resolving, one
\* returns without resolving, one leaves the socket alone
CatchRethrow(r, message) ==
    [destroy(r) EXCEPT !.result = Settle(@, Rejected(message)), !.pc = "done"]

CatchSilent(r, message) == [destroy(r) EXCEPT !.pc = "done"]

CatchNoDestroy(r, message) == resolve(r, FailedReport(r.port, message))

\* catch (error) { client.destroy(); resolve(`Failed ...`) }
Catch(r, message) ==
    resolve(log(destroy(r), FailedLog(r.port, message)), FailedReport(r.port, message))

\* compressData: zlib's deflate of the utf8 bytes of the payload
Deflate(code) == <<"deflate", code>>

\* Buffer.from(code, 'utf8').length
Utf8Length(code) ==
    CASE code = "" -> 0
      [] code = "NULL" -> 4
      [] code = "print(1)" -> 8

\* compressedData.length: a short payload is one fixed-Huffman block of
\* literals (n + 2 bytes) between the 2-byte zlib header and the 4-byte checksum
ByteLength(data) == Utf8Length(data[2]) + 8

\* variant of the payload test that only looks for the "NULL" marker
AfterConnectNullOnly(r) ==
    IF r.code # "NULL"
    THEN [r EXCEPT !.pc = "compressing", !.encoded = @ + 1]
    ELSE resolve(end(r), NoScriptReport(r.port))

\* variant of the payload test that only looks for an empty payload
AfterConnectNoSentinel(r) ==
    IF r.code # ""
    THEN [r EXCEPT !.pc = "compressing", !.encoded = @ + 1]
    ELSE resolve(end(r), NoScriptReport(r.port))

\* the statements after the await, up to the next suspension
AfterConnect(r) ==
    IF r.code # "" /\ r.code # "NULL"
    THEN [r EXCEPT !.pc = "compressing", !.encoded = @ + 1]
    ELSE resolve(end(r), NoScriptReport(r.port))

\* the await of promiseTimeout(...) resumes
Resume(r) ==
    IF r.race[1] = "resolved" THEN AfterConnect(r) ELSE Catch(r, r.race[2])

\* variant of the race in which the input that settles last is observed
RaceSettleLast(r, outcome) ==
    LET r2 == [r EXCEPT !.race = outcome]
    IN  IF r.race = Pending /\ r.pc = "connecting" THEN Resume(r2) ELSE r2

\* Promise.race: the first of its inputs to settle settles it
RaceSettle(r, outcome) ==
    LET r2 == [r EXCEPT !.race = Settle(@, outcome)]
    IN  IF r.race = Pending /\ r2.race # Pending /\ r.pc = "connecting"
        THEN Resume(r2) ELSE r2

\* res() / rej(err) of the connect attempt
ConnectSettle(r, outcome) ==
    LET r2 == [r EXCEPT !.promise = Settle(@, outcome)]
    IN  IF r.promise = Pending THEN RaceSettle(r2, r2.promise) ELSE r2

\* promiseTimeout(promise, ms, errorMessage): arm the timer, race the two
promiseTimeout(r) ==
    LET r2 == [r EXCEPT !.id = "pending", !.pc = "connecting"]
    IN  IF r2.promise # Pending THEN RaceSettle(r2, r2.promise) ELSE r2

\* the setTimeout callback of promiseTimeout
TimerCallback(r) ==
    RaceSettle([r EXCEPT !.id = "fired"], Rejected(RaceTimeoutMessage(r.port)))

\* the executor of the connect attempt: connect, on('error'), setTimeout, on('timeout')
ConnectExecutor(r) ==
    IF ValidPort(r.port)
    THEN [r EXCEPT !.client = "connecting", !.calls = Append(@, "connect")]
    ELSE [r EXCEPT !.calls = Append(@, "connect"), !.promise = Rejected(BadPortMessage(r.port))]

\* the synchronous part of _connectAndSendInternal(code, port)
connectAndSendInternal(code, port) ==
    promiseTimeout(ConnectExecutor([NoSession EXCEPT !.code = code, !.port = port]))

\* the connect callback: res()
OnConnect(r) ==
    ConnectSettle(log([r EXCEPT !.client = "connected"], ConnectedLog(r.port)),
                  Resolved(<<>>))

\* variant of the 'error' handler that reports the failure itself
OnErrorResolves(r) == Catch(r, SocketError(r.client))

\* client.on('error'): client.destroy(); rej(err)
OnError(r) == ConnectSettle(destroy(r), Rejected(SocketError(r.client)))

\* variant of the 'timeout' handler that destroys the socket and forgets to reject
OnTimeoutNoReject(r) == destroy(r)

\* client.on('timeout'): client.destroy(); rej(new Error(...))
OnTimeout(r) == ConnectSettle(destroy(r), Rejected(SocketTimeoutMessage(r.port)))

\* variant that writes the payload twice, plain and compressed
OnDeflateTwice(r, ok) ==
    IF ok
    THEN [r EXCEPT !.pc = "writing", !.calls = @ \o <<"write", "write">>,
                   !.written = IF r.client = "connected"
                               THEN @ \o <<r.code, Deflate(r.code)>> ELSE @]
    ELSE Catch(r, CompressionMessage)

\* compressData settles: client.write(compressedData, callback), or the catch
OnDeflate(r, ok) ==
    IF ok
    THEN [r EXCEPT !.pc = "writing", !.calls = Append(@, "write"),
                   !.written = IF r.client = "connected"
                               THEN Append(@, Deflate(r.code)) ELSE @]
    ELSE Catch(r, CompressionMessage)

\* variant of the write callback whose report leaves the port out
WriteCallbackNoPort(r, err) ==
    resolve(end(log([r EXCEPT !.flushed = ~err],
                    ScriptSentLog(r.port, ToString(ByteLength(Deflate(r.code)))))),
            <<"Successfully executed script">>)

\* the write callback: client.end(); resolve(`Successfully executed ...`)
\* (the callback's error argument is not looked at)
WriteCallback(r, err) ==
    resolve(end(log([r EXCEPT !.flushed = ~err],
                    ScriptSentLog(r.port, ToString(ByteLength(Deflate(r.code)))))),
            ExecutedReport(r.port))

\* ------------------------------------------------------ check-port-status
\* The state of one invocation: the socket, the calls made on it, and the
\* promise the handler returns.
\* `event` is the socket event that was delivered ("none" before any).
NoProbe ==
    [pc |-> "idle", port |-> "", client |-> "new", calls |-> <<>>, event |-> "none",
     result |-> Pending]

\* variant of the handlers that resolves without destroying the socket
ProbeHandlerNoDestroy(q, event, value) ==
    [q EXCEPT !.event = event, !.result = Settle(@, Resolved(value)), !.pc = "done"]

\* once('connect') / once('error') / once('timeout'): client.destroy(); resolve(value)
ProbeHandler(q, event, value) ==
    [q EXCEPT !.client = "destroyed", !.calls = Append(@, "destroy"), !.event = event,
              !.result = Settle(@, Resolved(value)), !.pc = "done"]

\* the executor: register the handlers, client.connect(port, ...), client.setTimeout(1000);
\* a throw of connect rejects the promise the handler returns
checkPortStatus(port) ==
    IF ValidPort(port)
    THEN [NoProbe EXCEPT !.pc = "connecting", !.port = port, !.client = "connecting",
                         !.calls = <<"connect">>]
    ELSE [NoProbe EXCEPT !.pc = "done", !.port = port, !.calls = <<"connect">>,
                         !.result = Rejected(BadPortMessage(port))]

\* ------------------------------------------------------------- auto-attach
\* variant of the test of the report: result.includes('connect')
ContainsConnect(report) ==
    Len(report) > 0 /\ report[1] \in {NoScriptReport("")[1], FailedReport("", <<>>)[1]}

\* result.startsWith('Successfully connected')
StartsWithSuccessfullyConnected(report) ==
    Len(report) > 0 /\ report[1] = NoScriptReport("")[1]

\* The for loop over PORTS, from iteration i on, with the sessions opened so
\* far: it runs until a session has to be awaited or the handler returns.
RECURSIVE ScanFrom(_, _)
RECURSIVE ScanAwaited(_, _)
\* variant of the loop that does not await a session before opening the next
RECURSIVE ScanFromNoAwait(_, _)
ScanFromNoAwait(atts, i) ==
    IF i > Len(PORTS) THEN [attempts |-> atts, ret |-> Resolved(AutoAttachFailure)]
    ELSE ScanFromNoAwait(Append(atts, connectAndSendInternal("NULL", PORTS[i])), i + 1)

\* variant of the loop that stops one port short
ScanFromShort(atts, i) ==
    IF i >= Len(PORTS) THEN [attempts |-> atts, ret |-> Resolved(AutoAttachFailure)]
    ELSE LET a2 == Append(atts, connectAndSendInternal("NULL", PORTS[i]))
         IN  IF a2[i].result = Pending THEN [attempts |-> a2, ret |-> Pending]
             ELSE ScanAwaited(a2, i)

ScanFrom(atts, i) ==
    IF i > Len(PORTS) THEN [attempts |-> atts, ret |-> Resolved(AutoAttachFailure)]
    ELSE LET a2 == Append(atts, connectAndSendInternal("NULL", PORTS[i]))
         IN  IF a2[i].result = Pending THEN [attempts |-> a2, ret |-> Pending]
             ELSE ScanAwaited(a2, i)

\* the await of session i resumes
ScanAwaited(atts, i) ==
    LET res == atts[i].result
    IN  IF res[1] = "resolved" /\ StartsWithSuccessfullyConnected(res[2])
        THEN [attempts |-> atts, ret |-> Resolved(PORTS[i])]
        ELSE ScanFrom(atts, i + 1)

\* ------------------------------------------------------------------ state
\*   session     the 'connect-and-send' invocations
\*   probe       the 'check-port-status' invocations
\*   attempts    the sessions 'auto-attach' has opened, one per loop iteration
\*   autoAttach  the promise 'auto-attach' returns (<<"idle">> before the call)
VARIABLES session, probe, attempts, autoAttach

vars == <<session, probe, attempts, autoAttach>>

Idle == <<"idle">>

Init ==
    /\ session = [s \in SendIds |-> NoSession]
    /\ probe = [p \in ProbeIds |-> NoProbe]
    /\ attempts = <<>>
    /\ autoAttach = Idle

\* ipcMain.handle('connect-and-send')
ConnectAndSend(s, code, port) ==
    /\ session[s].pc = "idle"
    /\ session' = [session EXCEPT ![s] = connectAndSendInternal(code, port)]
    /\ UNCHANGED <<probe, attempts, autoAttach>>

ConnectEvent(s) ==
    /\ session[s].client = "connecting"
    /\ session' = [session EXCEPT ![s] = OnConnect(@)]
    /\ UNCHANGED <<probe, attempts, autoAttach>>

ErrorEvent(s) ==
    /\ session[s].client \in Alive
    /\ session' = [session EXCEPT ![s] = OnError(@)]
    /\ UNCHANGED <<probe, attempts, autoAttach>>

TimeoutEvent(s) ==
    /\ session[s].client \in Alive
    /\ session' = [session EXCEPT ![s] = OnTimeout(@)]
    /\ UNCHANGED <<probe, attempts, autoAttach>>

RaceTimer(s) ==
    /\ session[s].id = "pending"
    /\ session' = [session EXCEPT ![s] = TimerCallback(@)]
    /\ UNCHANGED <<probe, attempts, autoAttach>>

DeflateDone(s, ok) ==
    /\ session[s].pc = "compressing"
    /\ session' = [session EXCEPT ![s] = OnDeflate(@, ok)]
    /\ UNCHANGED <<probe, attempts, autoAttach>>

\* the write is flushed (err = FALSE, only on a socket not destroyed) or
\* fails (err = TRUE); either way Node calls the callback
WriteDone(s, err) ==
    /\ session[s].pc = "writing"
    /\ (~err) => session[s].client = "connected"
    /\ session' = [session EXCEPT ![s] = WriteCallback(@, err)]
    /\ UNCHANGED <<probe, attempts, autoAttach>>

\* ipcMain.handle('check-port-status')
CheckPortStatus(p, port) ==
    /\ probe[p].pc = "idle"
    /\ probe' = [probe EXCEPT ![p] = checkPortStatus(port)]
    /\ UNCHANGED <<session, attempts, autoAttach>>

\* variant in which the status check and the sends share one socket handle:
\* the destroy of the probe tears down the sockets of the sessions
ProbeConnectShared(p) ==
    /\ probe[p].client = "connecting"
    /\ probe' = [probe EXCEPT ![p] = ProbeHandler(@, "connect", TRUE)]
    /\ session' = [s \in SendIds |->
                      IF session[s].client \in Alive THEN destroy(session[s])
                      ELSE session[s]]
    /\ UNCHANGED <<attempts, autoAttach>>

ProbeConnect(p) ==
    /\ probe[p].client = "connecting"
    /\ probe' = [probe EXCEPT ![p] = ProbeHandler(@, "connect", TRUE)]
    /\ UNCHANGED <<session, attempts, autoAttach>>

ProbeError(p) ==
    /\ probe[p].client = "connecting"
    /\ probe' = [probe EXCEPT ![p] = ProbeHandler(@, "error", FALSE)]
    /\ UNCHANGED <<session, attempts, autoAttach>>

ProbeTimeout(p) ==
    /\ probe[p].client = "connecting"
    /\ probe' = [probe EXCEPT ![p] = ProbeHandler(@, "timeout", FALSE)]
    /\ UNCHANGED <<session, attempts, autoAttach>>

\* ipcMain.handle('auto-attach')
AutoAttach ==
    /\ autoAttach = Idle
    /\ LET run == ScanFrom(<<>>, 1)
       IN  attempts' = run.attempts /\ autoAttach' = run.ret
    /\ UNCHANGED <<session, probe>>

\* an event of session k of the scan; the loop resumes when it settles the
\* session the loop is awaiting
ScanStep(k, r) ==
    /\ LET atts == [attempts EXCEPT ![k] = r]
       IN  IF autoAttach = Pending /\ k = Len(attempts)
              /\ attempts[k].result = Pending /\ r.result # Pending
           THEN LET run == ScanAwaited(atts, k)
                IN  attempts' = run.attempts /\ autoAttach' = run.ret
           ELSE attempts' = atts /\ UNCHANGED autoAttach
    /\ UNCHANGED <<session, probe>>

ScanConnectEvent(k) ==
    /\ attempts[k].client = "connecting"
    /\ ScanStep(k, OnConnect(attempts[k]))

ScanErrorEvent(k) ==
    /\ attempts[k].client \in Alive
    /\ ScanStep(k, OnError(attempts[k]))

ScanTimeoutEvent(k) ==
    /\ attempts[k].client \in Alive
    /\ ScanStep(k, OnTimeout(attempts[k]))

ScanRaceTimer(k) ==
    /\ attempts[k].id = "pending"
    /\ ScanStep(k, TimerCallback(attempts[k]))

NextSend ==
    \/ \E s \in SendIds, code \in HostCodes, port \in HostPorts : ConnectAndSend(s, code, port)
    \/ \E s \in SendIds : ConnectEvent(s)
    \/ \E s \in SendIds : ErrorEvent(s)
    \/ \E s \in SendIds : TimeoutEvent(s)
    \/ \E s \in SendIds : RaceTimer(s)
    \/ \E s \in SendIds, ok \in BOOLEAN : DeflateDone(s, ok)
    \/ \E s \in SendIds, err \in BOOLEAN : WriteDone(s, err)

NextProbe ==
    \/ \E p \in ProbeIds, port \in HostPorts : CheckPortStatus(p, port)
    \/ \E p \in ProbeIds : ProbeConnect(p)
    \/ \E p \in ProbeIds : ProbeError(p)
    \/ \E p \in ProbeIds : ProbeTimeout(p)

NextScan ==
    \/ AutoAttach
    \/ \E k \in DOMAIN attempts : ScanConnectEvent(k)
    \/ \E k \in DOMAIN attempts : ScanErrorEvent(k)
    \/ \E k \in DOMAIN attempts : ScanTimeoutEvent(k)
    \/ \E k \in DOMAIN attempts : ScanRaceTimer(k)

\* the host issues targeted sends and status checks, concurrently
Next == NextSend \/ NextProbe

Spec == Init /\ [][Next]_vars

\* the host issues one autodiscovery
SpecScan == Init /\ [][NextScan]_vars

\* Timers that are armed fire, deflate calls back, and Node calls every write
\* callback (on flush, on a write error, or when the socket is destroyed).
Fairness ==
    \A s \in SendIds :
        /\ WF_vars(RaceTimer(s))
        /\ WF_vars(\E ok \in BOOLEAN : DeflateDone(s, ok))
        /\ WF_vars(\E err \in BOOLEAN : WriteDone(s, err))

FairSpec == Init /\ [][Next]_vars /\ Fairness

\* ================================================================ claims
IsFailedReport(report, port) ==
    /\ Len(report) > 3
    /\ SubSeq(report, 1, 3) = FailedReport(port, <<>>)

IsSuccessReport(report, port) ==
    report = ExecutedReport(port) \/ report = NoScriptReport(port)

IsReport(report, port) == IsSuccessReport(report, port) \/ IsFailedReport(report, port)

Started(r) == r.pc # "idle"

\* C1: whatever the port, the payload and the order of the events, a send
\* never rejects: the promise the caller holds is pending or resolved with
\* one of the report strings, and it is resolved once the executor is done.
C1_SendNeverRejects ==
    \A s \in SendIds :
        LET r == session[s]
        IN  /\ r.result[1] # "rejected"
            /\ r.result # Pending => IsReport(r.result[2], r.port)
            /\ r.pc = "done" => r.result # Pending

\* a send to a port net refuses to connect to resolved with a failure report
C1_Witness ==
    \E s \in SendIds :
        /\ Started(session[s])
        /\ ~ValidPort(session[s].port)
        /\ session[s].result = Resolved(FailedReport(session[s].port,
                                                     BadPortMessage(session[s].port)))

\* C2: every session that was started eventually resolves, with or without a
\* payload and whether or not a connect or error event ever arrives.
C2_SessionResolves ==
    \A s \in SendIds : Started(session[s]) ~> (session[s].result # Pending)

\* a listener that never accepts: no socket event came, the race timer failed
\* the session
C2_Witness ==
    \E s \in SendIds :
        /\ session[s].promise = Pending
        /\ session[s].id = "fired"
        /\ session[s].result = Resolved(FailedReport(session[s].port,
                                                     RaceTimeoutMessage(session[s].port)))

\* C3: auto-attach returns port PORTS[i] exactly when session i is the first
\* to resolve to a success report, and then no port after i was connected to.
C3_FirstLiveWins ==
    /\ \A i \in 1..Len(PORTS) :
          autoAttach = Resolved(PORTS[i]) =>
              /\ Len(attempts) = i
              /\ attempts[i].result = Resolved(NoScriptReport(PORTS[i]))
              /\ \A j \in 1..(i - 1) :
                    /\ attempts[j].result # Pending
                    /\ attempts[j].result # Resolved(NoScriptReport(PORTS[j]))
    /\ \A i \in DOMAIN attempts :
          /\ attempts[i].port = PORTS[i]
          /\ attempts[i].result = Resolved(NoScriptReport(PORTS[i])) =>
                 (autoAttach = Resolved(PORTS[i]) /\ Len(attempts) = i)

\* only the 4th candidate is live: it is returned, the 5th and 6th never opened
C3_Witness ==
    /\ autoAttach = Resolved(PORTS[4])
    /\ Len(attempts) = 4
    /\ \A j \in 1..3 : IsFailedReport(attempts[j].result[2], PORTS[j])

\* C4: auto-attach returns the failure sentinel exactly when all six
\* candidates were tried, once each and in list order, and every one of them
\* resolved to a failure report; the sentinel is none of the candidate ports.
C4_ExhaustionSentinel ==
    LET failed(i) == /\ attempts[i].result # Pending
                     /\ IsFailedReport(attempts[i].result[2], PORTS[i])
    IN  /\ \A i \in 1..Len(PORTS) : PORTS[i] # AutoAttachFailure
        /\ Len(attempts) <= Len(PORTS)
        /\ \A i \in DOMAIN attempts : attempts[i].port = PORTS[i] /\ attempts[i].code = "NULL"
        /\ \A i \in DOMAIN attempts : i < Len(attempts) => failed(i)
        /\ autoAttach = Resolved(AutoAttachFailure) <=>
              (Len(attempts) = Len(PORTS) /\ \A i \in DOMAIN attempts : failed(i))

\* all six candidates failed, each for a different reason where possible
C4_Witness ==
    /\ autoAttach = Resolved(AutoAttachFailure)
    /\ Len(attempts) = Len(PORTS)
    /\ attempts[1].result = Resolved(FailedReport(PORTS[1], RaceTimeoutMessage(PORTS[1])))
    /\ attempts[6].result = Resolved(FailedReport(PORTS[6], SocketError("connecting")))

Range(seq) == {seq[i] : i \in DOMAIN seq}

\* C5: a session whose connect attempt failed or timed out, whose compression
\* failed or whose write failed resolves to a failure report naming the port
\* and the error message; "Successfully executed script" is reported only
\* when the compressed payload was written and flushed.
C5_FailureNeverSuccess ==
    \A s \in SendIds :
        LET r == session[s]
        IN  r.result # Pending =>
              /\ r.race[1] = "rejected" =>
                     r.result = Resolved(FailedReport(r.port, r.race[2]))
              /\ (r.encoded = 1 /\ "write" \notin Range(r.calls)) =>
                     r.result = Resolved(FailedReport(r.port, CompressionMessage))
              /\ ("write" \in Range(r.calls) /\ ~r.flushed) =>
                     IsFailedReport(r.result[2], r.port)
              /\ r.result = Resolved(ExecutedReport(r.port)) =>
                     (r.flushed /\ r.written = <<Deflate(r.code)>>)

\* C6: a session started with the "NULL" marker never invokes compressData
\* and never writes; its socket calls are connect, then end or destroy; when
\* it succeeds the calls start connect, end and the report says no script
\* was sent.
C6_SentinelNeverWrites ==
    \A s \in SendIds :
        LET r == session[s]
        IN  (Started(r) /\ r.code = "NULL") =>
              /\ r.encoded = 0
              /\ r.written = <<>>
              /\ Range(r.calls) \subseteq {"connect", "end", "destroy"}
              /\ r.calls[1] = "connect"
              /\ \A i \in 2..Len(r.calls) : r.calls[i] # "connect"
              /\ r.result # Resolved(ExecutedReport(r.port))
              /\ (r.result # Pending /\ IsSuccessReport(r.result[2], r.port)) =>
                    /\ r.result = Resolved(NoScriptReport(r.port))
                    /\ SubSeq(r.calls, 1, 2) = <<"connect", "end">>

C6_Witness ==
    \E s \in SendIds :
        /\ session[s].code = "NULL"
        /\ session[s].result = Resolved(NoScriptReport(session[s].port))
        /\ session[s].calls = <<"connect", "end">>

\* C7: a status check never rejects; once its handler is done it is resolved
\* with a boolean, TRUE exactly when the event delivered was connect.
C7_ProbeBoolean ==
    \A p \in ProbeIds :
        LET q == probe[p]
        IN  /\ q.result[1] # "rejected"
            /\ q.pc = "done" => q.result # Pending
            /\ q.result # Pending =>
                  /\ q.result[2] \in BOOLEAN
                  /\ q.result[2] <=> (q.event = "connect")

\* C8: once the operation raced by promiseTimeout has resolved or rejected,
\* the timer is neither pending nor fired: it was cancelled.
C8_TimerCancelled ==
    \A s \in SendIds :
        session[s].promise # Pending => session[s].id \notin {"pending", "fired"}

\* C9: the promise promiseTimeout returns settles once, at the step in which
\* the first of the operation and the timer settles, with the operation's own
\* outcome or with the timeout error carrying the caller's message; it never
\* changes afterwards and never stays pending past either of them.
C9_ExactlyOneOutcome ==
    [][\A s \in SendIds :
          LET a == session[s]
              b == session'[s]
              opSettles == a.promise = Pending /\ b.promise # Pending
              timerFires == a.id = "pending" /\ b.id = "fired"
          IN  /\ a.race # Pending => b.race = a.race
              /\ (a.race = Pending /\ opSettles) => b.race = b.promise
              /\ (a.race = Pending /\ timerFires) =>
                     b.race = Rejected(RaceTimeoutMessage(b.port))
              /\ (a.race = Pending /\ b.race # Pending) => (opSettles \/ timerFires)
      ]_vars

\* the operation settled first and the timer fired later: the operation's
\* result is the one observed
C9_Witness ==
    \E s \in SendIds :
        /\ session[s].promise = Resolved(<<>>)
        /\ session[s].id = "fired"
        /\ session[s].race = session[s].promise

\* C10: a session that has resolved has released its socket: with a failure
\* report the socket is destroyed, with a success report end was called.
C10_SocketReleased ==
    \A s \in SendIds :
        LET r == session[s]
        IN  r.result # Pending =>
              /\ IsFailedReport(r.result[2], r.port) =>
                    (r.client = "destroyed" /\ "destroy" \in Range(r.calls))
              /\ IsSuccessReport(r.result[2], r.port) =>
                    (r.client \in {"ended", "destroyed"} /\ "end" \in Range(r.calls))

\* the race timer fired while the socket was still connecting: only the catch
\* block destroys it
C10_Witness ==
    \E s \in SendIds :
        /\ session[s].promise = Pending
        /\ session[s].race = Rejected(RaceTimeoutMessage(session[s].port))
        /\ session[s].calls = <<"connect", "destroy">>
        /\ session[s].result # Pending

Count(seq, x) == Cardinality({i \in DOMAIN seq : seq[i] = x})

\* C11: a session calls write at most once and hands the socket at most one
\* byte stream, the deflated payload; when the payload was delivered
\* (flushed) the socket calls are connect, write, end in that order, the
\* write was made on the connected socket, and the report was resolved by
\* the write callback itself: no call on the socket reads from the peer.
C11_OneStreamBetweenConnectAndEnd ==
    \A s \in SendIds :
        LET r == session[s]
        IN  /\ Count(r.calls, "write") <= 1
            /\ Len(r.written) <= 1
            /\ Range(r.calls) \subseteq {"connect", "write", "end", "destroy"}
            /\ r.written # <<>> =>
                  /\ r.written = <<Deflate(r.code)>>
                  /\ SubSeq(r.calls, 1, 2) = <<"connect", "write">>
                  /\ r.promise = Resolved(<<>>)
            /\ r.flushed =>
                  /\ r.written = <<Deflate(r.code)>>
                  /\ SubSeq(r.calls, 1, 3) = <<"connect", "write", "end">>
                  /\ r.result = Resolved(ExecutedReport(r.port))

\* a payload was delivered and reported; nothing happened on the socket since
C11_Witness ==
    \E s \in SendIds :
        /\ session[s].flushed
        /\ session[s].calls = <<"connect", "write", "end">>
        /\ session[s].client = "ended"
        /\ session[s].result = Resolved(ExecutedReport(session[s].port))

\* C12: the scan is sequential: every session but the last one opened has
\* resolved and its socket is destroyed, so at most one session is in flight
\* and session i+1 is opened only after session i has resolved.
C12_ScanSequential ==
    /\ \A i \in DOMAIN attempts :
          i < Len(attempts) =>
              /\ attempts[i].result # Pending
              /\ attempts[i].pc = "done"
              /\ attempts[i].client = "destroyed"
    /\ Cardinality({i \in DOMAIN attempts : attempts[i].result = Pending}) <= 1
    /\ Cardinality({i \in DOMAIN attempts : attempts[i].client \in Alive}) <= 1

\* the third candidate is being connected to; the first two have failed and
\* their race timers are still armed
C12_Witness ==
    /\ Len(attempts) = 3
    /\ attempts[3].result = Pending
    /\ attempts[3].client = "connecting"
    /\ attempts[1].id = "pending"
    /\ attempts[2].id = "pending"

\* what one event of its own can make of a session that runs alone
SessionSteps(r) ==
    UNION {
        IF r.pc = "idle"
        THEN {connectAndSendInternal(code, port) : code \in HostCodes, port \in HostPorts}
        ELSE {},
        IF r.client = "connecting" THEN {OnConnect(r)} ELSE {},
        IF r.client \in Alive THEN {OnError(r), OnTimeout(r)} ELSE {},
        IF r.id = "pending" THEN {TimerCallback(r)} ELSE {},
        IF r.pc = "compressing" THEN {OnDeflate(r, ok) : ok \in BOOLEAN} ELSE {},
        IF r.pc = "writing"
        THEN {WriteCallback(r, err) : err \in {e \in BOOLEAN : ~e => r.client = "connected"}}
        ELSE {} }

\* what one event of its own can make of a status check that runs alone
ProbeSteps(q) ==
    UNION {
        IF q.pc = "idle" THEN {checkPortStatus(port) : port \in HostPorts} ELSE {},
        IF q.client = "connecting"
        THEN {ProbeHandler(q, "connect", TRUE), ProbeHandler(q, "error", FALSE),
              ProbeHandler(q, "timeout", FALSE)}
        ELSE {} }

ByteCount(r) == ToString(ByteLength(Deflate(r.code)))

\* C14 as stated: the success report of a session that flushed its payload
\* names the port and the number of compressed bytes sent.
C14_ReportNamesPortAndByteCount ==
    \A s \in SendIds :
        LET r == session[s]
        IN  r.flushed =>
              /\ r.result # Pending
              /\ r.port \in Range(r.result[2])
              /\ ByteCount(r) \in Range(r.result[2])

\* C14 as amended: the success report of a session that flushed its payload
\* names the port and nothing else; the number of compressed bytes is
\* written to the console, with the port.
C14_ReportNamesPortOnly ==
    \A s \in SendIds :
        LET r == session[s]
        IN  r.flushed =>
              /\ r.result = Resolved(<<"Successfully executed script on port: ", r.port>>)
              /\ ByteCount(r) \notin Range(r.result[2])
              /\ ScriptSentLog(r.port, ByteCount(r)) \in Range(r.console)

C14_Witness ==
    \E s \in SendIds :
        /\ session[s].flushed
        /\ session[s].code = "print(1)"
        /\ ByteCount(session[s]) = "16"
        /\ session[s].console[Len(session[s].console)] = ScriptSentLog(session[s].port, "16")

\* C15: while a session awaits the connect attempt both timeouts are armed
\* (the race timer is pending, the socket that carries the idle timeout is
\* connecting).  If the race timer fires then, the session resolves to the
\* failure report with the race's timeout message and the socket is
\* destroyed; if the socket is torn down by one of its own events then, the
\* session resolves to the failure report with the socket's timeout message
\* (or, for an error event, the connection error).  A report once resolved
\* is never replaced, whatever fires later.
C15_DualTimeout ==
    [][\A s \in SendIds :
          LET a == session[s]
              b == session'[s]
              raceFailure == Resolved(FailedReport(a.port, RaceTimeoutMessage(a.port)))
              socketFailure == Resolved(FailedReport(a.port, SocketTimeoutMessage(a.port)))
              errorFailure == Resolved(FailedReport(a.port, SocketError("connecting")))
          IN  /\ b.pc = "connecting" => (b.id = "pending" /\ b.client = "connecting")
              /\ (a.pc = "connecting" /\ a.id = "pending" /\ b.id = "fired") =>
                     (b.result = raceFailure /\ b.client = "destroyed")
              /\ (a.pc = "connecting" /\ b.client = "destroyed" /\ b.id = a.id) =>
                     b.result \in {socketFailure, errorFailure}
              /\ a.result # Pending => b.result = a.result
      ]_vars

\* the socket's timeout fired first and failed the session; the race timer
\* fired later and the report is still the first one
C15_Witness ==
    \E s \in SendIds :
        /\ session[s].result = Resolved(FailedReport(session[s].port,
                                                     SocketTimeoutMessage(session[s].port)))
        /\ session[s].id = "fired"
        /\ session[s].race = Rejected(SocketTimeoutMessage(session[s].port))

\* C16: a status check calls nothing on its socket but connect and destroy
\* (it never writes), and once it has resolved its boolean the socket is
\* destroyed; no status check that has returned holds an open socket.
C16_ProbeNeverWritesAndDestroys ==
    \A p \in ProbeIds :
        LET q == probe[p]
        IN  /\ Range(q.calls) \subseteq {"connect", "destroy"}
            /\ q.result[1] = "resolved" =>
                  (q.client = "destroyed" /\ q.calls = <<"connect", "destroy">>)
            /\ q.result # Pending => q.client \notin Alive

\* the 1000 ms timeout fired: the socket was destroyed and false resolved
C16_Witness ==
    \E p \in ProbeIds :
        /\ probe[p].event = "timeout"
        /\ probe[p].result = Resolved(FALSE)
        /\ probe[p].calls = <<"connect", "destroy">>

\* C17: once the connect phase has succeeded it stays succeeded; a race
\* timer firing late, or an error or timeout event of the socket arriving
\* late, leaves the session where it is and its report as it is; the session
\* never resolves to a connect-phase failure (its only failure report is the
\* compression failure); and a report once resolved is never replaced.
C17_OneShotOutcome ==
    [][\A s \in SendIds :
          LET a == session[s]
              b == session'[s]
              connected(r) == r.race = Resolved(<<>>)
              timerFired == a.id = "pending" /\ b.id = "fired"
              socketEvent == /\ b.calls = Append(a.calls, "destroy")
                             /\ b.console = a.console
          IN  /\ a.result # Pending => b.result = a.result
              /\ connected(a) => connected(b)
              /\ (connected(b) /\ b.result # Pending) =>
                     b.result \in {Resolved(ExecutedReport(b.port)),
                                   Resolved(NoScriptReport(b.port)),
                                   Resolved(FailedReport(b.port, CompressionMessage))}
              /\ (connected(a) /\ (timerFired \/ socketEvent)) =>
                     (b.result = a.result /\ b.pc = a.pc)
      ]_vars

\* after a successful no-payload session the race timer fired and the socket
\* timed out: the success report stands
C17_Witness ==
    \E s \in SendIds :
        /\ session[s].race = Resolved(<<>>)
        /\ session[s].id = "fired"
        /\ session[s].calls = <<"connect", "end", "destroy">>
        /\ session[s].result = Resolved(NoScriptReport(session[s].port))

\* C18: after a successful connect the payload is encoded, and then written,
\* exactly when it is neither empty nor the text "NULL": for an empty
\* payload and for "NULL" compressData is never invoked, nothing is written
\* and the report says no script was sent; any other payload is encoded at
\* once and written as soon as the encoder succeeds.
C18_PayloadTest ==
    \A s \in SendIds :
        LET r == session[s]
        IN  /\ r.encoded > 0 => r.race = Resolved(<<>>)
            /\ r.race = Resolved(<<>>) =>
                  IF r.code = "" \/ r.code = "NULL"
                  THEN /\ r.encoded = 0
                       /\ "write" \notin Range(r.calls)
                       /\ r.written = <<>>
                       /\ r.result = Resolved(NoScriptReport(r.port))
                  ELSE /\ r.encoded = 1
                       /\ r.result # Resolved(NoScriptReport(r.port))
                       /\ \/ r.pc = "compressing"
                          \/ r.result = Resolved(FailedReport(r.port, CompressionMessage))
                          \/ "write" \in Range(r.calls)

\* an empty payload: connected, closed, nothing encoded
C18_Witness ==
    \E s \in SendIds :
        /\ session[s].code = ""
        /\ session[s].race = Resolved(<<>>)
        /\ session[s].encoded = 0
        /\ session[s].result = Resolved(NoScriptReport(session[s].port))

====
